---- MODULE Spec2Model ----
(***************************************************************************)
(* The Swagger backend of stone (src/stone/backends/swagger.stoneg.py):    *)
(* SwaggerBackend.generate walks the namespaces named by the rock file,    *)
(* compiles every route into a path item and, while doing so, synthesizes  *)
(* schemas for the routes' data types into the shared Context.schemas.     *)
(*                                                                         *)
(* Python values are modelled as follows.                                  *)
(*   None / a present value v  :  <<>> / <<v>>                             *)
(*   str that is only compared :  a TLA+ string                            *)
(*   str that is built or matched (paths, docs, refs) : a sequence of      *)
(*        tokens, '+' being \o                                             *)
(*   dict (insertion ordered)  :  a sequence of <<key, value>> pairs       *)
(*   the call stack of _generate_for_datatype : the sequence stack         *)
(***************************************************************************)
EXTENDS Naturals, Sequences, FiniteSets, TLC

\* ------------------------------------------------------------------------
\* Bounds of the model
\* ------------------------------------------------------------------------

\* routes per namespace in the drawn Api
MaxRoutes == 2

\* routes of the namespace users in the drawn Api
MaxUserRoutes == 1

\* frames of _generate_for_datatype the interpreter allows before it raises
\* RecursionError (sys.getrecursionlimit(), scaled down)
RecursionLimit == 6

\* ------------------------------------------------------------------------
\* Python values
\* ------------------------------------------------------------------------

None == <<>>

Some(v) == <<v>>

\* '%s' % v for an optional text
Format(opt) == IF opt = None THEN <<"None">> ELSE opt[1]

IsPrefix(p, s) == Len(p) <= Len(s) /\ \A i \in 1..Len(p) : p[i] = s[i]

\* re.match(pattern, string) for a pattern without metacharacters: the
\* pattern must match at the start of the string
ReMatch(pattern, string) == IsPrefix(pattern, string)

DictKeys(d) == [i \in 1..Len(d) |-> d[i][1]]

DictHas(d, k) == \E i \in 1..Len(d) : d[i][1] = k

DictGet(d, k) == d[CHOOSE i \in 1..Len(d) : d[i][1] = k][2]

\* d[k] = v
DictSet(d, k, v) ==
    IF DictHas(d, k)
    THEN [i \in 1..Len(d) |-> IF d[i][1] = k THEN <<k, v>> ELSE d[i]]
    ELSE Append(d, <<k, v>>)

RECURSIVE DictUpdate(_, _)
\* d.update(e)
DictUpdate(d, e) ==
    IF e = <<>> THEN d
    ELSE DictUpdate(DictSet(d, e[1][1], e[1][2]), Tail(e))

\* ------------------------------------------------------------------------
\* The IR read by the backend (stone.ir): data types, routes, namespaces
\* ------------------------------------------------------------------------

Field(name, data_type, doc) == [name |-> name, data_type |-> data_type, doc |-> doc]

Primitive(name) ==
    [kind |-> "Primitive", name |-> name, namespace |-> "", data_type |-> "",
     all_fields |-> <<>>, doc |-> None]

Wrapper(kind, name, data_type) ==
    [kind |-> kind, name |-> name, namespace |-> "", data_type |-> data_type,
     all_fields |-> <<>>, doc |-> None]

Composite(kind, namespace, name, doc, all_fields) ==
    [kind |-> kind, name |-> name, namespace |-> namespace, data_type |-> "",
     all_fields |-> all_fields, doc |-> doc]

PrimitiveIds == {"Boolean", "Float64", "String", "Timestamp", "Void", "Bytes"}

DataTypeIds ==
    PrimitiveIds \cup
    {"Nullable(String)", "Nullable(Nullable(String))", "Nullable(files.Node)",
     "Nullable(files.ListError)", "List(String)", "List(files.ListArg)",
     "files.PathAlias", "files.ListArg", "files.ListResult", "files.ListError",
     "files.Entry", "files.Node", "files.Tree", "files.Leaf",
     "users.ListArg", "users.Account"}

\* The data types of the Api the passes run on.  Fields name their data type
\* by identifier, so that a struct can refer to itself (files.Node), two types
\* to each other (files.Tree, files.Leaf), and two namespaces can each declare
\* a type called ListArg.
DataType(id) ==
    CASE id \in PrimitiveIds -> Primitive(id)
      [] id = "Nullable(String)" -> Wrapper("Nullable", "Nullable", "String")
      [] id = "Nullable(Nullable(String))" ->
            Wrapper("Nullable", "Nullable", "Nullable(String)")
      [] id = "Nullable(files.Node)" -> Wrapper("Nullable", "Nullable", "files.Node")
      [] id = "Nullable(files.ListError)" ->
            Wrapper("Nullable", "Nullable", "files.ListError")
      [] id = "List(String)" -> Wrapper("List", "List", "String")
      [] id = "List(files.ListArg)" -> Wrapper("List", "List", "files.ListArg")
      [] id = "files.PathAlias" -> Wrapper("Alias", "PathAlias", "String")
      [] id = "files.ListArg" ->
            Composite("Struct", "files", "ListArg", Some(<<"Arg of list_folder.">>),
                <<Field("path", "String", Some(<<"Path to list.">>))>>)
      [] id = "files.ListResult" ->
            Composite("Struct", "files", "ListResult", None,
                <<Field("entries", "List(String)", Some(<<"Names found.">>)),
                  Field("cursor", "Nullable(String)", None),
                  Field("previous", "Nullable(Nullable(String))", Some(<<"Cursor before.">>)),
                  Field("has_more", "Boolean", Some(<<"More to come.">>))>>)
      [] id = "files.ListError" ->
            Composite("Union", "files", "ListError", Some(<<"Why listing failed.">>),
                <<Field("path_error", "Void", Some(<<"Bad path.">>)),
                  Field("retry_after", "Float64", Some(<<"Seconds to wait.">>)),
                  Field("other", "Void", None)>>)
      [] id = "files.Entry" ->
            Composite("Struct", "files", "Entry", Some(<<"One entry.">>),
                <<Field("args", "List(files.ListArg)", Some(<<"Earlier requests.">>)),
                  Field("arg", "files.ListArg", Some(<<"How it was found.">>)),
                  Field("error", "files.ListError", Some(<<"Last failure.">>)),
                  Field("raw", "Bytes", None),
                  Field("modified", "Timestamp", Some(<<"Time of change.">>))>>)
      [] id = "files.Node" ->
            Composite("Struct", "files", "Node", None,
                <<Field("value", "String", Some(<<"Payload.">>)),
                  Field("next", "Nullable(files.Node)", Some(<<"Next node.">>))>>)
      [] id = "files.Tree" ->
            Composite("Struct", "files", "Tree", None,
                <<Field("leaf", "files.Leaf", Some(<<"First leaf.">>))>>)
      [] id = "files.Leaf" ->
            Composite("Union", "files", "Leaf", None,
                <<Field("none", "Void", None),
                  Field("parent", "files.Tree", Some(<<"Owning tree.">>))>>)
      [] id = "users.ListArg" ->
            Composite("Struct", "users", "ListArg", Some(<<"Arg of list users.">>),
                <<Field("id", "Float64", Some(<<"Account id.">>))>>)
      [] id = "users.Account" ->
            Composite("Struct", "users", "Account", None,
                <<Field("failed", "Nullable(files.ListError)", Some(<<"Last failure.">>)),
                  Field("home", "files.ListArg", Some(<<"Home folder.">>)),
                  Field("created", "Timestamp", None)>>)

is_primitive_type(data_type) == DataType(data_type).kind = "Primitive"

is_nullable_type(data_type) == DataType(data_type).kind = "Nullable"

is_list_type(data_type) == DataType(data_type).kind = "List"

is_struct_type(data_type) == DataType(data_type).kind = "Struct"

is_union_type(data_type) == DataType(data_type).kind = "Union"

is_user_defined_type(data_type) == is_struct_type(data_type) \/ is_union_type(data_type)

is_void_type(data_type) == data_type = "Void"

is_boolean_type(data_type) == data_type = "Boolean"

is_numeric_type(data_type) == data_type = "Float64"

is_string_type(data_type) == data_type = "String"

is_timestamp_type(data_type) == data_type = "Timestamp"

ApiRoute(name, version, doc, arg, result, error) ==
    [name |-> name, version |-> version, doc |-> doc, arg_data_type |-> arg,
     result_data_type |-> result, error_data_type |-> error]

NamespaceNames == {"files", "users"}

\* The routes a namespace of the drawn Api may declare.  list_folder exists in
\* two versions in files: ApiRoute.name is the same for both.  A doc is the
\* sequence of its sentences and of the '. ' or '.' that ends each.
RouteChoices(namespace) ==
    IF namespace = "files"
    THEN {ApiRoute("list_folder", 1, Some(<<"List a folder", ". ", "Not sorted", ".">>),
                   "files.ListArg", "files.ListResult", "files.ListError"),
          ApiRoute("list_folder", 2, None, "files.Entry", "List(files.ListArg)",
                   "files.ListError"),
          ApiRoute("get_node", 1, None, "files.Node", "Void", "Void"),
          ApiRoute("get_alias", 1, None, "String", "files.PathAlias", "Void"),
          ApiRoute("get_tree", 1, None, "Void", "String", "files.Leaf")}
    ELSE {ApiRoute("list_folder", 1, None, "users.ListArg", "users.Account", "Void"),
          ApiRoute("get_account", 1, Some(<<"Get an account", ".">>),
                   "Void", "users.Account", "files.ListError")}

SeqsUpTo(S, n) == UNION {[1..k -> S] : k \in 0..n}

\* ApiNamespace.routes of the two namespaces
RoutesOf(namespace) ==
    IF namespace = "files" THEN SeqsUpTo(RouteChoices("files"), MaxRoutes)
    ELSE SeqsUpTo(RouteChoices("users"), MaxUserRoutes)

\* Api.namespaces: namespace name -> ApiNamespace.routes
Apis == [files : RoutesOf("files"), users : RoutesOf("users")]

\* ------------------------------------------------------------------------
\* The rock file (stone.backends.swagger_rsrc.rocks.Rock), read at line 47
\* ------------------------------------------------------------------------

ParameterDef(name, in_param, description, required, type) ==
    [name |-> name, in_param |-> in_param, description |-> description,
     required |-> required, type |-> type]

RockInfo == [title |-> "Files API", version |-> "1.0", description |-> None]

RockSwagger(parameters) ==
    [info |-> RockInfo, consumes |-> Some(<<"application/json">>),
     produces |-> Some(<<"application/json">>), host |-> Some("api.example.com"),
     base_path |-> Some("/2"), parameters |-> parameters]

\* rock.namespaces: the namespaces in scope of the document, in order
RockNamespaces ==
    {<<"files">>, <<"files", "users">>, <<"users", "files">>}

\* rock.parameters (path pattern -> shared parameter name) together with
\* rock.swagger.parameters (the shared parameter definitions).  The rock file
\* is validated field by field only: the table may name a parameter, here
\* trace, that rock.swagger.parameters does not define.
RockParameters ==
    {[parameters |-> None, definitions |-> None],
     [parameters |-> Some(<< <<(<<"/", "files", "/">>), "auth">>,
                            <<(<<"/", "files", "/", "list_folder">>), "limit">>,
                            <<(<<"/", "users", "/", "list_folder">>), "trace">> >>),
      definitions |-> Some(<<
          <<"auth", ParameterDef("Authorization", "header", None, Some(TRUE), Some("string"))>>,
          <<"account", ParameterDef("account_id", "query", Some(<<"Acting account.">>),
                                    None, Some("string"))>>,
          <<"limit", ParameterDef("limit", "query", None, Some(FALSE), Some("number"))>> >>)]}

Rocks ==
    {[name |-> "swagger.json", namespaces |-> ns, parameters |-> p.parameters,
      swagger |-> RockSwagger(p.definitions)] : ns \in RockNamespaces, p \in RockParameters}

\* ------------------------------------------------------------------------
\* The Swagger objects (src/stone/backends/swagger_objects.py)
\* ------------------------------------------------------------------------

\* id stands for the identity of the object: 0 until Allocate gives it one
Schema ==
    [node |-> "Schema", id |-> 0, type |-> None, title |-> None, items |-> None,
     properties |-> None, description |-> None, format |-> None, enum |-> None]

Reference(ref) == [node |-> "Reference", ref |-> ref]

Parameter(name, inParam, description, required, schema, type) ==
    [node |-> "Parameter", name |-> name, inParam |-> inParam, description |-> description,
     required |-> required, schema |-> schema, type |-> type]

Response(description, schema) ==
    [node |-> "Response", description |-> description, schema |-> schema]

\* self.default is set first, then the status codes are added to __dict__
Responses(default, statusCodes) ==
    [node |-> "Responses", entries |-> DictUpdate(<< <<"default", default>> >>, statusCodes)]

Operation(responses, summary, description, parameters, operationId) ==
    [node |-> "Operation", responses |-> responses, summary |-> summary,
     description |-> description, operationId |-> operationId, parameters |-> parameters]

PathItem(post) == [node |-> "PathItem", post |-> post]

\* ------------------------------------------------------------------------
\* Text helpers
\* ------------------------------------------------------------------------

\* stone.backends.helpers.split_words on the identifiers of the drawn Api
split_words(part) ==
    CASE part = "list_folder" -> <<"list", "folder">>
      [] part = "get_node" -> <<"get", "node">>
      [] part = "get_alias" -> <<"get", "alias">>
      [] part = "get_tree" -> <<"get", "tree">>
      [] part = "get_account" -> <<"get", "account">>
      [] OTHER -> <<part>>

\* str.capitalize on those words
capitalize(word) ==
    CASE word = "list" -> "List" [] word = "folder" -> "Folder" [] word = "get" -> "Get"
      [] word = "node" -> "Node" [] word = "alias" -> "Alias" [] word = "tree" -> "Tree"
      [] word = "account" -> "Account" [] word = "files" -> "Files"
      [] word = "users" -> "Users" [] OTHER -> word

RECURSIVE Join(_, _)
\* sep.join(texts), every text a sequence of tokens
Join(sep, texts) ==
    IF texts = <<>> THEN <<>>
    ELSE IF Len(texts) = 1 THEN texts[1]
    ELSE texts[1] \o <<sep>> \o Join(sep, Tail(texts))

Capitalized(part) == [i \in 1..Len(split_words(part)) |-> <<capitalize(split_words(part)[i])>>]

\* name.split('/') without the empty parts
PathParts(name) == SelectSeq(name, LAMBDA t : t # "/")

fmt_path(name) ==
    Join(" - ", [i \in 1..Len(PathParts(name)) |-> Join(" ", Capitalized(PathParts(name)[i]))])

RECURSIVE Flatten(_)
\* ''.join(texts)
Flatten(texts) == IF texts = <<>> THEN <<>> ELSE texts[1] \o Flatten(Tail(texts))

\* stone.backends.helpers.fmt_pascal: the words of the name, capitalized and
\* joined without a separator
fmt_pascal(name) ==
    Flatten([i \in 1..Len(PathParts(name)) |-> Flatten(Capitalized(PathParts(name)[i]))])

\* ------------------------------------------------------------------------
\* State
\* ------------------------------------------------------------------------

VARIABLES
    api,            \* the Api handed to generate
    rock,           \* the decoded rock file
    ctx_schemas,    \* Context.schemas
    all_paths,      \* generate: all_paths
    paths,          \* _generate_paths: paths
    pc,             \* where generate stands
    namespace_i,    \* generate: position of the loop over rock.namespaces
    route_i,        \* _generate_paths: position of the loop over namespace.routes
    stack,          \* the active calls of _generate_for_datatype, innermost last
    ret,            \* the value the last finished call returned, until it is used
    parameters,     \* _generate_operation: parameters
    default_schema, \* _generate_responses: default_schema
    output,         \* the texts handed to emit_raw
    error,          \* the exception that ended the pass
    warnings,       \* the messages given to logger.warning
    hashseed,       \* the interpreter's hash seed of the running pass
    previous,       \* what the pass before this one ended with, if there was one
    requested,      \* history: the user-defined types that reached line 131
    built,          \* history: the types whose schema line 132 began to generate
    registered,     \* history: the types whose schema line 132 stored
    allocated,      \* the number of Schema objects created so far
    calls,          \* history: the calls of _generate_for_datatype that returned
    inserted,       \* history: the entries of ctx.schemas as line 132 stored them
    namespaces,     \* babelsdk Api.namespaces: name -> the ApiNamespace object
    objects,        \* the ApiNamespace objects created, by identity
    returned,       \* what the last call of Api.ensure_namespace returned
    log             \* history: the calls made on the Api and its namespaces

vars ==
    <<api, rock, ctx_schemas, all_paths, paths, pc, namespace_i, route_i, stack, ret,
      parameters, default_schema, output, error, warnings, hashseed, previous,
      requested, built, registered, allocated, calls, inserted, namespaces, objects,
      returned, log>>

\* the state of the babelsdk Api, which generate does not touch
builder == <<namespaces, objects, returned, log>>

history == <<hashseed, previous, requested, built, registered, inserted>>

\* ------------------------------------------------------------------------
\* The synthesizer: _generate_for_datatype and what it calls
\* ------------------------------------------------------------------------

_generate_primitive_type_name(data_type) ==
    IF is_boolean_type(data_type) THEN "boolean"
    ELSE IF is_numeric_type(data_type) THEN "number"
    ELSE IF is_string_type(data_type) THEN "string"
    ELSE IF is_void_type(data_type) THEN "null"
    ELSE IF is_timestamp_type(data_type) THEN "string"
    ELSE "object"

\* the primitive types _generate_primitive_type_name warns about
IsUnknownPrimitive(data_type) ==
    ~ (\/ is_boolean_type(data_type) \/ is_numeric_type(data_type)
       \/ is_string_type(data_type) \/ is_void_type(data_type)
       \/ is_timestamp_type(data_type))

_generate_primitive_type_schema(data_type) ==
    [Schema EXCEPT !.type = Some(_generate_primitive_type_name(data_type))]

\* the reference made from the namespace-qualified name of the type
QualifiedReference(data_type) == Reference(<<"#/definitions/", data_type>>)

_generate_reference_for_datatype(data_type) ==
    Reference(<<"#/definitions/", DataType(data_type).name>>)

_generate_reference_for_parameter(parameter_name) ==
    Reference(<<"#/parameters/", parameter_name>>)

\* line 131: data_type.name not in ctx.schemas
NotInSchemas(schemas, data_type) == ~ DictHas(schemas, DataType(data_type).name)

\* the schema is stored for a struct only
StoreStructSchema(schemas, data_type, schema) ==
    IF is_struct_type(data_type) THEN DictSet(schemas, DataType(data_type).name, schema)
    ELSE schemas

\* line 132: ctx.schemas[data_type.name] = schema
StoreSchema(schemas, data_type, schema) == DictSet(schemas, DataType(data_type).name, schema)

\* lines 164 and 182
InitialDescription(data_type) ==
    IF DataType(data_type).doc # None /\ DataType(data_type).doc[1] # <<>>
    THEN DataType(data_type).doc[1] \o <<"\n">>
    ELSE <<>>

\* lines 167 and 184: '%s: %s\n' % (field.name, field.doc)
FieldLine(field) == <<field.name, ": ">> \o Format(field.doc) \o <<"\n">>

\* the field's doc is not copied
WithoutFieldDoc(property, field) == property

\* lines 172-173 and 186-187
WithFieldDoc(property, field) ==
    IF property.node = "Schema" THEN [property EXCEPT !.description = field.doc]
    ELSE property

\* every Schema object is the one object of its kind
Interned(schema, n) == [schema EXCEPT !.id = 0]

\* Schema(...): a new object, the n+1st the pass creates
Allocate(schema, n) == [schema EXCEPT !.id = n + 1]

RECURSIVE Written(_, _, _)
\* node after object.description = doc, for the object of that identity
\* wherever node holds it
Written(node, id, doc) ==
    IF node.node # "Schema" THEN node
    ELSE [node EXCEPT
            !.description = IF node.id = id THEN doc ELSE @,
            !.items = IF @ = None THEN None ELSE Some(Written(@[1], id, doc)),
            !.properties =
                IF @ = None THEN None
                ELSE Some([i \in 1..Len(@[1]) |->
                              <<@[1][i][1], Written(@[1][i][2], id, doc)>>])]

\* lines 172-173 and 186-187 as seen through a dict that holds Schema
\* objects: the assignment reaches the object wherever it is held
WrittenDict(d, property, field) ==
    IF property.node = "Schema"
    THEN [i \in 1..Len(d) |-> <<d[i][1], Written(d[i][2], property.id, field.doc)>>]
    ELSE d

\* the same, through the own_properties of the active calls
WrittenFrames(frames, property, field) ==
    [i \in 1..Len(frames) |->
        [frames[i] EXCEPT !.own_properties = WrittenDict(@, property, field)]]

\* line 189
StructSchema(frame) ==
    [Schema EXCEPT !.type = Some("object"), !.properties = Some(frame.own_properties),
                   !.description = Some(frame.description)]

\* line 175
TagSchema(data_type, choices) ==
    [Schema EXCEPT !.type = Some("string"), !.enum = Some(choices),
                   !.title = Some(<<"Choice of ", DataType(data_type).name>>)]

\* lines 175-176: the Schema of '.tag' is created, then the Schema of the union
UnionSchema(frame, n) ==
    Allocate([Schema EXCEPT
                !.type = Some("object"),
                !.properties = Some(DictSet(frame.own_properties, ".tag",
                                        Allocate(TagSchema(frame.data_type, frame.choices), n))),
                !.description = Some(frame.description)],
             n + 1)

\* an array schema that does not say what its items are
ArrayOfAnything(items) == [Schema EXCEPT !.type = Some("array")]

\* line 128
ArraySchema(items) == [Schema EXCEPT !.type = Some("array"), !.items = Some(items)]

\* a call of _generate_for_datatype; before is the keys of ctx.schemas as
\* the call found it
Frame(data_type) ==
    [data_type |-> data_type, pc |-> "enter", i |-> 1, own_properties |-> <<>>,
     description |-> <<>>, choices |-> <<>>, before |-> DictKeys(ctx_schemas)]

\* line 134: the call of frame returns node and leaves ctx.schemas, whose
\* keys are kept, as schemas
Return(frame, node, schemas) ==
    Append(calls, [data_type |-> frame.data_type, before |-> frame.before,
                   ret |-> node, after |-> DictKeys(schemas)])

Top == stack[Len(stack)]

Pop == SubSeq(stack, 1, Len(stack) - 1)

SetTop(frame) == [stack EXCEPT ![Len(stack)] = frame]

CurrentField == DataType(Top.data_type).all_fields[Top.i]

\* the exception leaves generate through a handler that writes what has
\* been compiled so far
RaiseFlushing(exception) ==
    /\ pc' = "failed"
    /\ error' = Some(exception)
    /\ stack' = <<>>
    /\ output' = Append(output, [json |-> [j |-> "leaf", v |-> all_paths], end |-> ""])

\* An exception leaves generate: nothing catches it
Raise(exception) ==
    /\ pc' = "failed"
    /\ error' = Some(exception)
    /\ stack' = <<>>
    /\ output' = output

\* A call of _generate_for_datatype from the frames callers; past the
\* interpreter's limit the call raises RecursionError instead
Call(callers, data_type) ==
    IF Len(callers) >= RecursionLimit
    THEN Raise(<<"RecursionError">>)
    ELSE /\ stack' = Append(callers, Frame(data_type))
         /\ UNCHANGED <<pc, error, output>>

Running == pc \in {"arg", "error", "result"} /\ stack # <<>>

\* lines 123-124
SynthPrimitive ==
    /\ Running /\ Top.pc = "enter" /\ is_primitive_type(Top.data_type)
    /\ ret' = Some(Allocate(_generate_primitive_type_schema(Top.data_type), allocated))
    /\ allocated' = allocated + 1
    /\ calls' = Return(Top, ret'[1], ctx_schemas)
    /\ warnings' = IF IsUnknownPrimitive(Top.data_type)
                   THEN Append(warnings, <<"unknown primitive data_type ", Top.data_type>>)
                   ELSE warnings
    /\ stack' = Pop
    /\ UNCHANGED <<builder, api, rock, ctx_schemas, all_paths, paths, pc, namespace_i, route_i,
                   parameters, default_schema, output, error, history>>

\* lines 125-126, the call
SynthNullable ==
    /\ Running /\ Top.pc = "enter" /\ ~ is_primitive_type(Top.data_type)
    /\ is_nullable_type(Top.data_type)
    /\ Call(SetTop([Top EXCEPT !.pc = "nullable"]), DataType(Top.data_type).data_type)
    /\ UNCHANGED <<builder, allocated, calls, api, rock, ctx_schemas, all_paths, paths, namespace_i, route_i, ret,
                   parameters, default_schema, warnings, history>>

\* the inner schema is returned with a mark of nullability on it
NullableReturnMarked ==
    /\ pc \in {"arg", "error", "result"} /\ stack # <<>>
    /\ stack[Len(stack)].pc = "nullable" /\ ret # None
    /\ ret' = IF ret[1].node = "Schema"
              THEN Some([ret[1] EXCEPT !.title = Some(<<"nullable">>)])
              ELSE ret
    /\ calls' = Append(calls, [data_type |-> stack[Len(stack)].data_type,
                               before |-> stack[Len(stack)].before,
                               ret |-> ret'[1], after |-> DictKeys(ctx_schemas)])
    /\ stack' = SubSeq(stack, 1, Len(stack) - 1)
    /\ UNCHANGED <<builder, allocated, api, rock, ctx_schemas, all_paths, paths, pc,
                   namespace_i, route_i, parameters, default_schema, output, error,
                   warnings, hashseed, previous, requested, built, registered, inserted>>

\* lines 126 and 134: the inner schema is returned as it is
NullableReturn ==
    /\ Running /\ Top.pc = "nullable" /\ ret # None
    /\ calls' = Return(Top, ret[1], ctx_schemas)
    /\ stack' = Pop
    /\ UNCHANGED <<builder, allocated, api, rock, ctx_schemas, all_paths, paths, pc, namespace_i, route_i, ret,
                   parameters, default_schema, output, error, warnings, history>>

\* lines 127-128, the call
SynthList ==
    /\ Running /\ Top.pc = "enter" /\ ~ is_primitive_type(Top.data_type)
    /\ ~ is_nullable_type(Top.data_type) /\ is_list_type(Top.data_type)
    /\ Call(SetTop([Top EXCEPT !.pc = "list"]), DataType(Top.data_type).data_type)
    /\ UNCHANGED <<builder, allocated, calls, api, rock, ctx_schemas, all_paths, paths, namespace_i, route_i, ret,
                   parameters, default_schema, warnings, history>>

\* lines 128 and 134
ListReturn ==
    /\ Running /\ Top.pc = "list" /\ ret # None
    /\ ret' = Some(Allocate(ArraySchema(ret[1]), allocated))
    /\ allocated' = allocated + 1
    /\ calls' = Return(Top, ret'[1], ctx_schemas)
    /\ stack' = Pop
    /\ UNCHANGED <<builder, api, rock, ctx_schemas, all_paths, paths, pc, namespace_i, route_i,
                   parameters, default_schema, output, error, warnings, history>>

IsOther(data_type) ==
    /\ ~ is_primitive_type(data_type)
    /\ ~ is_nullable_type(data_type)
    /\ ~ is_list_type(data_type)

\* line 130: the assertion fails
SynthUnknown ==
    /\ Running /\ Top.pc = "enter" /\ IsOther(Top.data_type)
    /\ ~ is_user_defined_type(Top.data_type)
    /\ Raise(<<"AssertionError", "unknown field data_type ", Top.data_type>>)
    /\ UNCHANGED <<builder, allocated, calls, api, rock, ctx_schemas, all_paths, paths, namespace_i, route_i, ret,
                   parameters, default_schema, warnings, history>>

\* lines 131, 133: the name is in ctx.schemas
SynthRegistered ==
    /\ Running /\ Top.pc = "enter" /\ IsOther(Top.data_type)
    /\ is_user_defined_type(Top.data_type)
    /\ ~ NotInSchemas(ctx_schemas, Top.data_type)
    /\ requested' = Append(requested, Top.data_type)
    /\ ret' = Some(_generate_reference_for_datatype(Top.data_type))
    /\ calls' = Return(Top, ret'[1], ctx_schemas)
    /\ stack' = Pop
    /\ UNCHANGED <<builder, allocated, api, rock, ctx_schemas, all_paths, paths, pc, namespace_i, route_i,
                   parameters, default_schema, output, error, warnings, hashseed, previous,
                   built, registered, inserted>>

\* lines 131-132, 153-156, 163-165 and 181-182: the schema is to be generated
SynthUserDefined ==
    /\ Running /\ Top.pc = "enter" /\ IsOther(Top.data_type)
    /\ is_user_defined_type(Top.data_type)
    /\ NotInSchemas(ctx_schemas, Top.data_type)
    /\ requested' = Append(requested, Top.data_type)
    /\ built' = Append(built, Top.data_type)
    /\ stack' = SetTop([Top EXCEPT
            !.pc = IF is_struct_type(Top.data_type) THEN "struct" ELSE "union",
            !.description = InitialDescription(Top.data_type)])
    /\ UNCHANGED <<builder, allocated, calls, api, rock, ctx_schemas, all_paths, paths, pc, namespace_i, route_i, ret,
                   parameters, default_schema, output, error, warnings, hashseed, previous,
                   registered, inserted>>

\* lines 183-185
StructField ==
    /\ Running /\ Top.pc = "struct" /\ Top.i <= Len(DataType(Top.data_type).all_fields)
    /\ Call(SetTop([Top EXCEPT !.pc = "struct_field",
                               !.description = @ \o FieldLine(CurrentField)]),
            CurrentField.data_type)
    /\ UNCHANGED <<builder, allocated, calls, api, rock, ctx_schemas, all_paths, paths, namespace_i, route_i, ret,
                   parameters, default_schema, warnings, history>>

\* lines 185-188
StructFieldReturn ==
    /\ Running /\ Top.pc = "struct_field" /\ ret # None
    /\ stack' = [WrittenFrames(stack, ret[1], CurrentField) EXCEPT ![Len(stack)] =
            [@ EXCEPT
                !.pc = "struct", !.i = @ + 1,
                !.own_properties = DictSet(@, CurrentField.name,
                                           WithFieldDoc(ret[1], CurrentField))]]
    /\ ctx_schemas' = WrittenDict(ctx_schemas, ret[1], CurrentField)
    /\ ret' = None
    /\ UNCHANGED <<builder, allocated, calls, api, rock, all_paths, paths, pc, namespace_i, route_i,
                   parameters, default_schema, output, error, warnings, history>>

\* lines 189-190, 132-134
StructReturn ==
    /\ Running /\ Top.pc = "struct" /\ Top.i > Len(DataType(Top.data_type).all_fields)
    /\ ctx_schemas' = StoreSchema(ctx_schemas, Top.data_type,
                                  Allocate(StructSchema(Top), allocated))
    /\ allocated' = allocated + 1
    /\ registered' = Append(registered, Top.data_type)
    /\ ret' = Some(_generate_reference_for_datatype(Top.data_type))
    /\ calls' = Return(Top, ret'[1], ctx_schemas')
    /\ inserted' = Append(inserted, <<DataType(Top.data_type).name,
                                      Allocate(StructSchema(Top), allocated)>>)
    /\ stack' = Pop
    /\ UNCHANGED <<builder, api, rock, all_paths, paths, pc, namespace_i, route_i, parameters,
                   default_schema, output, error, warnings, hashseed, previous, requested,
                   built>>

\* a Void field is skipped before its name is appended to choices
UnionVoidFieldSkipped ==
    /\ stack # <<>> /\ pc \in {"arg", "error", "result"}
    /\ stack[Len(stack)].pc = "union"
    /\ stack[Len(stack)].i <= Len(DataType(stack[Len(stack)].data_type).all_fields)
    /\ is_void_type(DataType(stack[Len(stack)].data_type).all_fields[stack[Len(stack)].i].data_type)
    /\ stack' = [stack EXCEPT ![Len(stack)].i = @ + 1]
    /\ UNCHANGED <<builder, allocated, calls, api, rock, ctx_schemas, all_paths, paths, pc, namespace_i, route_i, ret,
                   parameters, default_schema, output, error, warnings, hashseed, previous,
                   requested, built, registered, inserted>>

\* lines 166-170: a Void field
UnionVoidField ==
    /\ Running /\ Top.pc = "union" /\ Top.i <= Len(DataType(Top.data_type).all_fields)
    /\ is_void_type(CurrentField.data_type)
    /\ stack' = SetTop([Top EXCEPT !.i = @ + 1,
                                   !.description = @ \o FieldLine(CurrentField),
                                   !.choices = Append(@, CurrentField.name)])
    /\ UNCHANGED <<builder, allocated, calls, api, rock, ctx_schemas, all_paths, paths, pc, namespace_i, route_i, ret,
                   parameters, default_schema, output, error, warnings, history>>

\* lines 166-171: a field with a value
UnionField ==
    /\ Running /\ Top.pc = "union" /\ Top.i <= Len(DataType(Top.data_type).all_fields)
    /\ ~ is_void_type(CurrentField.data_type)
    /\ Call(SetTop([Top EXCEPT !.pc = "union_field",
                               !.description = @ \o FieldLine(CurrentField),
                               !.choices = Append(@, CurrentField.name)]),
            CurrentField.data_type)
    /\ UNCHANGED <<builder, allocated, calls, api, rock, ctx_schemas, all_paths, paths, namespace_i, route_i, ret,
                   parameters, default_schema, warnings, history>>

\* lines 171-174
UnionFieldReturn ==
    /\ Running /\ Top.pc = "union_field" /\ ret # None
    /\ stack' = [WrittenFrames(stack, ret[1], CurrentField) EXCEPT ![Len(stack)] =
            [@ EXCEPT
                !.pc = "union", !.i = @ + 1,
                !.own_properties = DictSet(@, CurrentField.name,
                                           WithFieldDoc(ret[1], CurrentField))]]
    /\ ctx_schemas' = WrittenDict(ctx_schemas, ret[1], CurrentField)
    /\ ret' = None
    /\ UNCHANGED <<builder, allocated, calls, api, rock, all_paths, paths, pc, namespace_i, route_i,
                   parameters, default_schema, output, error, warnings, history>>

\* lines 175-177, 132-134
UnionReturn ==
    /\ Running /\ Top.pc = "union" /\ Top.i > Len(DataType(Top.data_type).all_fields)
    /\ ctx_schemas' = StoreSchema(ctx_schemas, Top.data_type, UnionSchema(Top, allocated))
    /\ allocated' = allocated + 2
    /\ registered' = Append(registered, Top.data_type)
    /\ ret' = Some(_generate_reference_for_datatype(Top.data_type))
    /\ calls' = Return(Top, ret'[1], ctx_schemas')
    /\ inserted' = Append(inserted, <<DataType(Top.data_type).name,
                                      UnionSchema(Top, allocated)>>)
    /\ stack' = Pop
    /\ UNCHANGED <<builder, api, rock, all_paths, paths, pc, namespace_i, route_i, parameters,
                   default_schema, output, error, warnings, hashseed, previous, requested,
                   built>>

\* ------------------------------------------------------------------------
\* Rendering: Serializable.dict under json.dumps(..., default=lambda o: o.dict())
\* ------------------------------------------------------------------------

\* A value json.dumps meets: a scalar, a list, or a Serializable with its
\* __dict__ (attribute name -> value or None, in the order of assignment) and
\* its _renames table.  Attribute names and wire keys are texts.
Leaf(v) == [j |-> "leaf", v |-> v]

List(vs) == [j |-> "list", v |-> vs]

Object(renames, attrs) ==
    [j |-> "object", renames |-> renames,
     attrs |-> << <<(<<"_renames">>), Some(Leaf("_renames"))>> >> \o attrs]

\* Serializable.__init__
BaseRenames == << <<(<<"_renames">>), None>> >>

Optional(opt) == IF opt = None THEN None ELSE Some(Leaf(opt[1]))

\* dict.items() of an interpreter whose dicts are ordered by hash
ItemsHashed(d, seed) == IF seed = 1 THEN [i \in 1..Len(d) |-> d[Len(d) + 1 - i]] ELSE d

\* dict.items(): a dict is iterated in the order of insertion, whatever
\* the hash seed of the interpreter
Items(d, seed) == d

RECURSIVE SerializableDictFrom(_, _, _)
SerializableDictFrom(d, renames, attrs) ==
    IF attrs = <<>> THEN d
    ELSE LET k == attrs[1][1]
             v == attrs[1][2]
             next == IF v = None THEN d
                     ELSE IF DictHas(renames, k)
                          THEN IF DictGet(renames, k) # None
                               THEN DictSet(d, DictGet(renames, k)[1], v[1])
                               ELSE d
                          ELSE DictSet(d, k, v[1])
         IN SerializableDictFrom(next, renames, Tail(attrs))

\* every present attribute is rendered under its own name
SerializableDictUnrenamed(object, seed) ==
    SerializableDictFrom(<<>>, <<>>, Items(object.attrs, seed))

\* Serializable.dict
SerializableDict(object, seed) ==
    SerializableDictFrom(<<>>, object.renames, Items(object.attrs, seed))

RECURSIVE ObjectOf(_)
\* the Serializable a node of the document is: class by class, the attributes
\* its __init__ assigns (those that are always None left out)
ObjectOf(n) ==
    LET Child(opt) == IF opt = None THEN None ELSE Some(ObjectOf(opt[1]))
        Entries(d) == [i \in 1..Len(d) |->
                          <<(IF n.node = "Paths" THEN d[i][1] ELSE <<d[i][1]>>),
                            Some(ObjectOf(d[i][2]))>>]
        Each(vs) == List([i \in 1..Len(vs) |-> ObjectOf(vs[i])])
        Leaves(vs) == List([i \in 1..Len(vs) |-> Leaf(vs[i])])
    IN CASE n.node = "Schema" ->
              Object(BaseRenames,
                  << <<(<<"type">>), Optional(n.type)>>,
                     <<(<<"title">>), Optional(n.title)>>,
                     <<(<<"items">>), Child(n.items)>>,
                     <<(<<"properties">>),
                       IF n.properties = None THEN None
                       ELSE Some(ObjectOf([node |-> "Properties", entries |-> n.properties[1]]))>>,
                     <<(<<"description">>), Optional(n.description)>>,
                     <<(<<"format">>), Optional(n.format)>>,
                     <<(<<"enum">>), IF n.enum = None THEN None ELSE Some(Leaves(n.enum[1]))>> >>)
         [] n.node = "Reference" ->
              Object(DictSet(BaseRenames, <<"ref">>, Some(<<"$ref">>)),
                  << <<(<<"ref">>), Some(Leaf(n.ref))>> >>)
         [] n.node = "Parameter" ->
              Object(DictSet(BaseRenames, <<"inParam">>, Some(<<"in">>)),
                  << <<(<<"name">>), Some(Leaf(n.name))>>,
                     <<(<<"inParam">>), Some(Leaf(n.inParam))>>,
                     <<(<<"description">>), Optional(n.description)>>,
                     <<(<<"required">>), Optional(n.required)>>,
                     <<(<<"schema">>), Child(n.schema)>>,
                     <<(<<"type">>), Optional(n.type)>> >>)
         [] n.node = "Response" ->
              Object(BaseRenames,
                  << <<(<<"description">>), Some(Leaf(n.description))>>,
                     <<(<<"schema">>), Child(n.schema)>> >>)
         [] n.node = "Operation" ->
              Object(BaseRenames,
                  << <<(<<"responses">>), Some(ObjectOf(n.responses))>>,
                     <<(<<"summary">>), Optional(n.summary)>>,
                     <<(<<"description">>), Optional(n.description)>>,
                     <<(<<"operationId">>), Optional(n.operationId)>>,
                     <<(<<"parameters">>),
                       IF n.parameters = None THEN None ELSE Some(Each(n.parameters[1]))>> >>)
         [] n.node = "PathItem" ->
              Object(DictSet(BaseRenames, <<"ref">>, Some(<<"$ref">>)),
                  << <<(<<"ref">>), None>>, <<(<<"post">>), Child(n.post)>> >>)
         [] n.node = "Info" ->
              Object(BaseRenames,
                  << <<(<<"title">>), Some(Leaf(n.title))>>,
                     <<(<<"version">>), Some(Leaf(n.version))>>,
                     <<(<<"description">>), Optional(n.description)>> >>)
         [] n.node = "Swagger" ->
              Object(BaseRenames,
                  << <<(<<"swagger">>), Some(Leaf(n.swagger))>>,
                     <<(<<"info">>), Some(ObjectOf(n.info))>>,
                     <<(<<"paths">>), Some(ObjectOf(n.paths))>>,
                     <<(<<"host">>), Optional(n.host)>>,
                     <<(<<"basePath">>), Optional(n.basePath)>>,
                     <<(<<"consumes">>),
                       IF n.consumes = None THEN None ELSE Some(Leaves(n.consumes[1]))>>,
                     <<(<<"produces">>),
                       IF n.produces = None THEN None ELSE Some(Leaves(n.produces[1]))>>,
                     <<(<<"definitions">>), Child(n.definitions)>>,
                     <<(<<"parameters">>), Child(n.parameters)>> >>)
         [] OTHER ->
              \* Paths, Definitions, ParametersDefinitions, Responses and
              \* Schema.Properties: __dict__.update(entries)
              Object(BaseRenames, Entries(n.entries))

RECURSIVE Dumps(_, _)
\* json.dumps: the JSON value written, objects as ordered key/value pairs
Dumps(value, seed) ==
    CASE value.j = "leaf" -> value
      [] value.j = "list" -> List([i \in 1..Len(value.v) |-> Dumps(value.v[i], seed)])
      [] value.j = "object" ->
            LET d == SerializableDict(value, seed)
            IN [j |-> "dict", v |-> [i \in 1..Len(d) |-> <<d[i][1], Dumps(d[i][2], seed)>>]]

\* ------------------------------------------------------------------------
\* generate and the route compiler
\* ------------------------------------------------------------------------

SWAGGER_VERSION == "2.0"

Namespace == rock.namespaces[namespace_i]

Route == api[Namespace][route_i]

\* line 91
FqPath(namespace, route) == <<"/", namespace, "/", route.name>>

\* every shared parameter of the table is injected, whatever the path
InjectedUnmatched(table, fq_path) ==
    IF table = None THEN <<>>
    ELSE [i \in 1..Len(table[1]) |-> _generate_reference_for_parameter(table[1][i][2])]

\* lines 115-118: the shared parameters whose pattern matches, in table order
InjectedParameters(table, fq_path) ==
    IF table = None THEN <<>>
    ELSE LET matching == SelectSeq(Items(table[1], hashseed),
                                   LAMBDA e : ReMatch(e[1], fq_path))
         IN [i \in 1..Len(matching) |-> _generate_reference_for_parameter(matching[i][2])]

\* lines 114-119
GenerateParameters(schema, table, fq_path) ==
    <<Parameter("body", "body", None, None, Some(schema), None)>>
        \o InjectedParameters(table, fq_path)

\* lines 139-144
GenerateResponses(default, ok) ==
    Responses(Response(<<"Error">>, Some(default)),
              << <<"200", Response(<<"Success">>, Some(ok))>> >>)

\* lines 103-109
GenerateOperation(route, fq_path, params, responses) ==
    Operation(responses, Some(fmt_path(fq_path)), route.doc, Some(params),
              Some(fmt_pascal(fq_path)))

\* lines 71-74
GenerateInfo(info) ==
    [node |-> "Info", title |-> info.title, version |-> info.version,
     description |-> info.description]

\* The class line 15 imports; swagger_objects.py as it stands has no such
\* class, nor a parameters argument of Swagger.  Both are taken to be what
\* Definitions and the definitions argument are: __dict__.update(entries).
ParametersDefinitions(entries) == [node |-> "ParametersDefinitions", entries |-> entries]

\* lines 76-85
GenerateParametersObject(definitions) ==
    IF definitions = None THEN None
    ELSE Some(ParametersDefinitions(
               [i \in 1..Len(definitions[1]) |->
                   <<Items(definitions[1], hashseed)[i][1],
                     LET def == Items(definitions[1], hashseed)[i][2]
                     IN Parameter(def.name, def.in_param, def.description, def.required,
                                  None, def.type)>>]))

\* lines 146-149
GenerateDefinitions(schemas) == [node |-> "Definitions", entries |-> schemas]

\* lines 57-69
GenerateSwagger(schemas, the_paths) ==
    [node |-> "Swagger", swagger |-> SWAGGER_VERSION,
     info |-> GenerateInfo(rock.swagger.info),
     paths |-> [node |-> "Paths", entries |-> the_paths],
     host |-> rock.swagger.host, basePath |-> rock.swagger.base_path,
     consumes |-> rock.swagger.consumes, produces |-> rock.swagger.produces,
     definitions |-> Some(GenerateDefinitions(schemas)),
     parameters |-> GenerateParametersObject(rock.swagger.parameters)]

\* line 55: the text handed to emit_raw
Rendered(schemas, the_paths) ==
    [json |-> Dumps(ObjectOf(GenerateSwagger(schemas, the_paths)), hashseed), end |-> "\n"]

\* lines 50-51 and 89: the next namespace in scope
GenerateNamespace ==
    /\ pc = "namespaces" /\ namespace_i <= Len(rock.namespaces)
    /\ paths' = <<>>
    /\ route_i' = 1
    /\ pc' = "routes"
    /\ UNCHANGED <<builder, allocated, calls, api, rock, ctx_schemas, all_paths, namespace_i, stack, ret, parameters,
                   default_schema, output, error, warnings, history>>

\* lines 90-92, 97, 103-105, 113: the next route, up to the call for its argument
GenerateRoute ==
    /\ pc = "routes" /\ route_i <= Len(api[Namespace])
    /\ stack' = <<Frame(Route.arg_data_type)>>
    /\ pc' = "arg"
    /\ UNCHANGED <<builder, allocated, calls, api, rock, ctx_schemas, all_paths, paths, namespace_i, route_i, ret,
                   parameters, default_schema, output, error, warnings, history>>

\* lines 113-119, 106, 138: the parameters, up to the call for the error type
ParametersReturn ==
    /\ pc = "arg" /\ stack = <<>> /\ ret # None
    /\ parameters' = Some(GenerateParameters(ret[1], rock.parameters, FqPath(Namespace, Route)))
    /\ ret' = None
    /\ stack' = <<Frame(Route.error_data_type)>>
    /\ pc' = "error"
    /\ UNCHANGED <<builder, allocated, calls, api, rock, ctx_schemas, all_paths, paths, namespace_i, route_i,
                   default_schema, output, error, warnings, history>>

\* lines 138-140: the default response, up to the call for the result type
DefaultSchemaReturn ==
    /\ pc = "error" /\ stack = <<>> /\ ret # None
    /\ default_schema' = ret
    /\ ret' = None
    /\ stack' = <<Frame(Route.result_data_type)>>
    /\ pc' = "result"
    /\ UNCHANGED <<builder, allocated, calls, api, rock, ctx_schemas, all_paths, paths, namespace_i, route_i,
                   parameters, output, error, warnings, history>>

\* line 92: paths[fq_path] = path_item
StorePathItem(the_paths, fq_path, path_item) == DictSet(the_paths, fq_path, path_item)

\* lines 140-144, 107-109, 98-99, 92: the operation is stored under its path
OkSchemaReturn ==
    /\ pc = "result" /\ stack = <<>> /\ ret # None
    /\ paths' = StorePathItem(paths, FqPath(Namespace, Route),
                    PathItem(Some(GenerateOperation(Route, FqPath(Namespace, Route),
                        parameters[1], GenerateResponses(default_schema[1], ret[1])))))
    /\ ret' = None
    /\ parameters' = None
    /\ default_schema' = None
    /\ route_i' = route_i + 1
    /\ pc' = "routes"
    /\ UNCHANGED <<builder, allocated, calls, api, rock, ctx_schemas, all_paths, namespace_i, stack, output, error,
                   warnings, history>>

\* lines 93 and 52: all_paths.update(paths)
PathsReturn ==
    /\ pc = "routes" /\ route_i > Len(api[Namespace])
    /\ all_paths' = DictUpdate(all_paths, paths)
    /\ paths' = <<>>
    /\ namespace_i' = namespace_i + 1
    /\ pc' = "namespaces"
    /\ UNCHANGED <<builder, allocated, calls, api, rock, ctx_schemas, route_i, stack, ret, parameters, default_schema,
                   output, error, warnings, history>>

\* lines 53-55: the document is assembled, rendered and written
Emit ==
    /\ pc = "namespaces" /\ namespace_i > Len(rock.namespaces)
    /\ output' = Append(output, Rendered(ctx_schemas, all_paths))
    /\ pc' = "done"
    /\ UNCHANGED <<builder, allocated, calls, api, rock, ctx_schemas, all_paths, paths, namespace_i, route_i, stack,
                   ret, parameters, default_schema, error, warnings, history>>

\* lines 46-49: the state of generate before the loop over rock.namespaces
Init ==
    /\ api \in Apis
    /\ rock \in Rocks
    /\ ctx_schemas = <<>>
    /\ all_paths = <<>>
    /\ paths = <<>>
    /\ pc = "namespaces"
    /\ namespace_i = 1
    /\ route_i = 1
    /\ stack = <<>>
    /\ ret = None
    /\ parameters = None
    /\ default_schema = None
    /\ output = <<>>
    /\ error = None
    /\ warnings = <<>>
    /\ hashseed = 0
    /\ previous = None
    /\ requested = <<>>
    /\ built = <<>>
    /\ registered = <<>>
    /\ allocated = 0
    /\ calls = <<>>
    /\ inserted = <<>>
    /\ namespaces = <<>>
    /\ objects = <<>>
    /\ returned = None
    /\ log = <<>>

Next ==
    \/ GenerateNamespace
    \/ GenerateRoute
    \/ SynthPrimitive
    \/ SynthNullable
    \/ NullableReturn
    \/ SynthList
    \/ ListReturn
    \/ SynthUnknown
    \/ SynthRegistered
    \/ SynthUserDefined
    \/ StructField
    \/ StructFieldReturn
    \/ StructReturn
    \/ UnionVoidField
    \/ UnionField
    \/ UnionFieldReturn
    \/ UnionReturn
    \/ ParametersReturn
    \/ DefaultSchemaReturn
    \/ OkSchemaReturn
    \/ PathsReturn
    \/ Emit

Spec == Init /\ [][Next]_vars

\* lines 44-49 once more: generate is run again on the same Api and the same
\* rock file, in an interpreter with another hash seed; what the earlier pass
\* wrote and raised is kept aside
SecondPass ==
    /\ pc \in {"done", "failed"} /\ previous = None
    /\ previous' = Some([output |-> output, error |-> error])
    /\ hashseed' = 1 - hashseed
    /\ ctx_schemas' = <<>>
    /\ all_paths' = <<>>
    /\ paths' = <<>>
    /\ pc' = "namespaces"
    /\ namespace_i' = 1
    /\ route_i' = 1
    /\ stack' = <<>>
    /\ ret' = None
    /\ parameters' = None
    /\ default_schema' = None
    /\ output' = <<>>
    /\ error' = None
    /\ warnings' = <<>>
    /\ requested' = <<>>
    /\ built' = <<>>
    /\ registered' = <<>>
    /\ allocated' = 0
    /\ calls' = <<>>
    /\ inserted' = <<>>
    /\ UNCHANGED <<builder, api, rock>>

NextTwice == Next \/ SecondPass

SpecTwice == Init /\ [][NextTwice]_vars

\* ------------------------------------------------------------------------
\* Vocabulary of the properties
\* ------------------------------------------------------------------------

Range(seq) == {seq[i] : i \in 1..Len(seq)}

NameOf(data_type) == DataType(data_type).name

\* how many of the data types in seq carry the name
Named(seq, name) == Cardinality({i \in 1..Len(seq) : NameOf(seq[i]) = name})

Occurrences(seq, x) == Cardinality({i \in 1..Len(seq) : seq[i] = x})

TextIncludes(text, part) ==
    \E i \in 1..(Len(text) + 1) :
        /\ i + Len(part) - 1 <= Len(text)
        /\ \A k \in 1..Len(part) : text[i + k - 1] = part[k]

\* the routes generate compiles, as <<namespace, position>>
InScopeRoutes ==
    UNION {{<<n, i>> : i \in 1..Len(api[n])} : n \in Range(rock.namespaces)}

RouteAt(r) == api[r[1]][r[2]]

\* every namespace in scope has been compiled
Compiled == pc \in {"namespaces", "done"} /\ namespace_i > Len(rock.namespaces)

RECURSIVE RefsIn(_)
\* the $ref strings of a written JSON value
RefsIn(json) ==
    CASE json.j = "leaf" -> {}
      [] json.j = "list" -> UNION {RefsIn(json.v[i]) : i \in 1..Len(json.v)}
      [] json.j = "dict" ->
            UNION {(IF json.v[i][1] = <<"$ref">> THEN {json.v[i][2].v} ELSE {})
                        \cup RefsIn(json.v[i][2]) : i \in 1..Len(json.v)}

Member(json, key) == DictGet(json.v, <<key>>)

KeysOf(json) == DictKeys(json.v)

RECURSIVE Unwrapped(_)
\* the data type under the Nullable wrappers
Unwrapped(data_type) ==
    IF is_nullable_type(data_type) THEN Unwrapped(DataType(data_type).data_type) ELSE data_type

FieldNames(fields) == [i \in 1..Len(fields) |-> fields[i].name]

\* ------------------------------------------------------------------------
\* Properties
\* ------------------------------------------------------------------------

\* C1: within one pass, for every Struct/Union name requested from
\* _generate_for_datatype, the schema is generated at most once (every
\* request after the first finds the name in ctx.schemas and returns the
\* Reference), ctx.schemas never holds two entries for the name, and once
\* requests for the name have returned, it holds one.
C1_BuiltOnce ==
    \A t \in Range(requested) :
        /\ Named(built, NameOf(t)) <= 1
        /\ Occurrences(DictKeys(ctx_schemas), NameOf(t)) <= 1
        /\ (stack = <<>> /\ pc # "failed" =>
                Occurrences(DictKeys(ctx_schemas), NameOf(t)) = 1)

\* the frames of the stack that are generating the schema of a Struct/Union
Building(name) ==
    {i \in 1..Len(stack) :
        /\ stack[i].pc \in {"struct", "struct_field", "union", "union_field"}
        /\ NameOf(stack[i].data_type) = name}

\* C2: a request for a Struct/Union that arrives while the schema of that
\* name is being generated further down the stack (a field of its own type,
\* or of a type that leads back to it) finds the name in ctx.schemas, so it
\* returns a Reference, and the synthesis ends without RecursionError.
C2_RecursionTerminates ==
    /\ (stack # <<>> /\ Top.pc = "enter" /\ is_user_defined_type(Top.data_type)
            /\ Building(NameOf(Top.data_type)) # {}
          => DictHas(ctx_schemas, NameOf(Top.data_type)))
    /\ error # Some(<<"RecursionError">>)

RefsUnderPaths(document) == RefsIn(Member(document.json, "paths"))

DefinitionKeys(document) == Range(KeysOf(Member(document.json, "definitions")))

ResolvesToDefinition(ref, document) ==
    \E k \in DefinitionKeys(document) : ref = <<"#/definitions/">> \o k

\* the references _generate_parameters can inject
ParameterRefs ==
    IF rock.parameters = None THEN {}
    ELSE {<<"#/parameters/", e[2]>> : e \in Range(rock.parameters[1])}

\* C3 as stated: in every written document every $ref under paths, those of
\* the injected parameters included, resolves to a key of its definitions.
C3_EveryRefResolves ==
    \A d \in Range(output) : \A r \in RefsUnderPaths(d) : ResolvesToDefinition(r, d)

\* C3 as amended: in every written document every $ref under paths either
\* resolves to a key of its definitions or is the '#/parameters/<name>'
\* reference of an injected shared parameter.
C3_SchemaRefsResolve ==
    \A d \in Range(output) : \A r \in RefsUnderPaths(d) :
        ResolvesToDefinition(r, d) \/ r \in ParameterRefs

C3_Witness ==
    \E d \in Range(output) :
        /\ \E r \in RefsUnderPaths(d) : r \in ParameterRefs
        /\ \E r \in RefsUnderPaths(d) : ResolvesToDefinition(r, d)
        /\ Len(api.files) = 2 /\ api.files[2].result_data_type = "List(files.ListArg)"

PathCollision ==
    \E r1, r2 \in InScopeRoutes :
        r1 # r2 /\ FqPath(r1[1], RouteAt(r1)) = FqPath(r2[1], RouteAt(r2))

\* C4: when two routes in scope have the same path key, no document is
\* written (the pass fails instead of keeping one of the two).
C4_CollisionIsFatal == PathCollision => output = <<>>

NameClash ==
    \E t1, t2 \in Range(requested) : t1 # t2 /\ NameOf(t1) = NameOf(t2)

\* C5: when two distinct Struct/Union types of the same name have been
\* reached, the pass does not complete (it fails instead of serving the
\* first type's schema for both).
C5_NameClashIsFatal == NameClash => pc # "done" /\ output = <<>>

\* C6: at most one text is written, it is written only by a pass that
\* compiled every route in scope without an exception and it is the whole
\* document; a pass that raised has written nothing.
C6_AllOrNothing ==
    /\ Len(output) <= 1
    /\ output # <<>> =>
          /\ pc = "done" /\ error = None /\ Compiled
          /\ output[1] = Rendered(ctx_schemas, all_paths)
          /\ \A r \in InScopeRoutes : DictHas(all_paths, FqPath(r[1], RouteAt(r)))
    /\ error # None => pc = "failed" /\ output = <<>>

C6_Witness ==
    /\ pc = "failed" /\ error # None /\ error[1][1] = "AssertionError"
    /\ all_paths # <<>> /\ ctx_schemas # <<>> /\ output = <<>>

RECURSIVE Flat(_)
Flat(seqs) == IF seqs = <<>> THEN <<>> ELSE seqs[1] \o Flat(Tail(seqs))

\* the data types generate asks the synthesizer for, in the order of the
\* namespaces in scope and of their routes: argument, error, result
RouteTypes ==
    Flat([n \in 1..Len(rock.namespaces) |->
            Flat([i \in 1..Len(api[rock.namespaces[n]]) |->
                    LET route == api[rock.namespaces[n]][i]
                    IN <<route.arg_data_type, route.error_data_type, route.result_data_type>>])])

RoutePaths ==
    Flat([n \in 1..Len(rock.namespaces) |->
            [i \in 1..Len(api[rock.namespaces[n]]) |->
                FqPath(rock.namespaces[n], api[rock.namespaces[n]][i])]])

RECURSIVE FirstOccurrences(_, _)
FirstOccurrences(seen, seq) ==
    IF seq = <<>> THEN seen
    ELSE FirstOccurrences(IF seq[1] \in Range(seen) THEN seen ELSE Append(seen, seq[1]),
                          Tail(seq))

RECURSIVE RegistrationOrder(_, _)
\* the names of the Struct/Union types met on a depth-first walk of the data
\* types todo, a type after the types of its fields, each name once
RegistrationOrder(order, todo) ==
    IF todo = <<>> THEN order
    ELSE LET t == todo[1]
             fields == DataType(t).all_fields
         IN IF is_nullable_type(t) \/ is_list_type(t)
            THEN RegistrationOrder(order, <<DataType(t).data_type>> \o Tail(todo))
            ELSE IF is_user_defined_type(t) /\ NameOf(t) \notin Range(order)
            THEN RegistrationOrder(
                     Append(RegistrationOrder(order,
                                [i \in 1..Len(fields) |-> fields[i].data_type]),
                            NameOf(t)),
                     Tail(todo))
            ELSE RegistrationOrder(order, Tail(todo))

Outcome == [output |-> output, error |-> error]

Ended == pc \in {"done", "failed"}

C7_WitnessError ==
    /\ previous # None /\ pc = "failed" /\ previous[1].error # None

RECURSIVE ReachableFrom(_)
\* the data types reachable through Nullable, List and the fields of structs
\* and unions
ReachableFrom(types) ==
    LET step == types \cup
                UNION {IF is_nullable_type(t) \/ is_list_type(t) THEN {DataType(t).data_type}
                       ELSE IF is_user_defined_type(t)
                       THEN {DataType(t).all_fields[i].data_type :
                                i \in 1..Len(DataType(t).all_fields)}
                       ELSE {} : t \in types}
    IN IF step = types THEN types ELSE ReachableFrom(step)

ReachableNames ==
    {NameOf(t) : t \in {u \in ReachableFrom(Range(RouteTypes)) : is_user_defined_type(u)}}

DeclaredNames == {NameOf(t) : t \in {u \in DataTypeIds : is_user_defined_type(u)}}

RegistryFollowsHistory ==
    /\ Len(ctx_schemas) = Len(registered)
    /\ \A i \in 1..Len(registered) : ctx_schemas[i][1] = NameOf(registered[i])

NonVoid(fields) == SelectSeq(fields, LAMBDA f : ~ is_void_type(f.data_type))

\* C9: the schema stored for a Union has the property '.tag' whose enum is
\* the names of all its fields, Void or not, in declaration order, and
\* besides '.tag' one property for each field that is not Void and none for
\* a Void field.
C9_UnionDiscriminator ==
    /\ RegistryFollowsHistory
    /\ \A i \in 1..Len(registered) :
          is_union_type(registered[i]) =>
              LET fields == DataType(registered[i]).all_fields
                  properties == ctx_schemas[i][2].properties[1]
              IN /\ DictHas(properties, ".tag")
                 /\ DictGet(properties, ".tag").enum = Some(FieldNames(fields))
                 /\ DictKeys(properties) = FieldNames(NonVoid(fields)) \o <<".tag">>

C9_Witness ==
    \E i \in 1..Len(registered) :
        /\ registered[i] = "files.ListError"
        /\ DictGet(ctx_schemas[i][2].properties[1], ".tag").enum
              = Some(<<"path_error", "retry_after", "other">>)
        /\ DictKeys(ctx_schemas[i][2].properties[1]) = <<"retry_after", ".tag">>

\* C10 as stated: for every field with a doc of a stored Struct schema,
\* whatever the field's type, the property of the field has a description
\* that includes the doc.
C10_EveryFieldDescribed ==
    \A i \in 1..Len(registered) :
        is_struct_type(registered[i]) /\ Len(ctx_schemas) >= i =>
            \A k \in 1..Len(DataType(registered[i]).all_fields) :
                LET field == DataType(registered[i]).all_fields[k]
                    property == DictGet(ctx_schemas[i][2].properties[1], field.name)
                IN field.doc # None =>
                      /\ property.node = "Schema"
                      /\ property.description # None
                      /\ TextIncludes(property.description[1], field.doc[1])

\* C10 as amended: the property of a field whose type, under its Nullable
\* wrappers, is a primitive or a list is a Schema whose description is the
\* field's doc; the property of a field whose type is a Struct/Union is the
\* bare Reference to that type, and the field's doc is found only in the
\* line '<name>: <doc>' of the struct's own description.
C10_FieldDocOnSchemas ==
    /\ RegistryFollowsHistory
    /\ \A i \in 1..Len(registered) :
          is_struct_type(registered[i]) =>
              \A k \in 1..Len(DataType(registered[i]).all_fields) :
                  LET field == DataType(registered[i]).all_fields[k]
                      property == DictGet(ctx_schemas[i][2].properties[1], field.name)
                      inner == Unwrapped(field.data_type)
                  IN /\ TextIncludes(ctx_schemas[i][2].description[1],
                                     <<field.name, ": ">> \o Format(field.doc) \o <<"\n">>)
                     /\ IF is_user_defined_type(inner)
                        THEN property = Reference(<<"#/definitions/", NameOf(inner)>>)
                        ELSE /\ property.node = "Schema"
                             /\ property.description = field.doc

C10_Witness ==
    \E i \in 1..Len(registered) :
        /\ registered[i] = "files.Entry"
        /\ DictGet(ctx_schemas[i][2].properties[1], "arg").node = "Reference"
        /\ DictGet(ctx_schemas[i][2].properties[1], "args").description
              = Some(<<"Earlier requests.">>)

RECURSIVE Erased(_)
\* a node as it reads, whichever objects it is made of
Erased(node) ==
    IF node.node # "Schema" THEN node
    ELSE [node EXCEPT
            !.id = 0,
            !.items = IF @ = None THEN None ELSE Some(Erased(@[1])),
            !.properties =
                IF @ = None THEN None
                ELSE Some([i \in 1..Len(@[1]) |-> <<@[1][i][1], Erased(@[1][i][2])>>])]

Inner(data_type) == DataType(data_type).data_type

\* C11: a call of _generate_for_datatype on a type under any number of
\* Nullable wrappers returns what a call on the type without them returns,
\* given the same ctx.schemas, and leaves ctx.schemas as that call leaves
\* it; nothing in the returned node tells that the type was nullable.
\* (ctx.schemas only grows and keeps its entries within a pass, so that its
\* keys tell which ctx.schemas a call found and left.)
C11_NullableTransparent ==
    \A i \in 1..Len(calls) :
        is_nullable_type(calls[i].data_type) =>
            /\ \E j \in 1..Len(calls) :
                  /\ calls[j].before = calls[i].before
                  /\ calls[j].data_type = Unwrapped(calls[i].data_type)
            /\ \A j \in 1..Len(calls) :
                  /\ calls[j].before = calls[i].before
                  /\ calls[j].data_type = Unwrapped(calls[i].data_type)
                  => /\ Erased(calls[i].ret) = Erased(calls[j].ret)
                     /\ calls[i].after = calls[j].after

C11_Witness ==
    /\ \E i \in 1..Len(calls) :
          /\ calls[i].data_type = "Nullable(files.ListError)"
          /\ calls[i].after # calls[i].before
          /\ calls[i].ret = Reference(<<"#/definitions/", "ListError">>)
    /\ \E i, j \in 1..Len(calls) :
          /\ calls[i].data_type = "Nullable(Nullable(String))"
          /\ calls[j].data_type = "String"
          /\ calls[j].before = calls[i].before
          /\ calls[j].ret.id # calls[i].ret.id

\* C12: a call on List(T) returns a Schema of type 'array' whose items are
\* what a call on T returns given the same ctx.schemas (the Reference to T
\* when T is a Struct/Union, which is then a key of ctx.schemas), and it
\* leaves ctx.schemas as the call on T leaves it.
C12_ListOfItems ==
    \A i \in 1..Len(calls) :
        is_list_type(calls[i].data_type) =>
            /\ calls[i].ret.node = "Schema"
            /\ calls[i].ret.type = Some("array")
            /\ calls[i].ret.items # None
            /\ \E j \in 1..Len(calls) :
                  /\ calls[j].before = calls[i].before
                  /\ calls[j].data_type = Inner(calls[i].data_type)
            /\ \A j \in 1..Len(calls) :
                  /\ calls[j].before = calls[i].before
                  /\ calls[j].data_type = Inner(calls[i].data_type)
                  => /\ Erased(calls[i].ret.items[1]) = Erased(calls[j].ret)
                     /\ calls[i].after = calls[j].after
            /\ is_user_defined_type(Inner(calls[i].data_type)) =>
                  /\ calls[i].ret.items[1]
                        = Reference(<<"#/definitions/", NameOf(Inner(calls[i].data_type))>>)
                  /\ NameOf(Inner(calls[i].data_type)) \in Range(calls[i].after)

C12_Witness ==
    /\ \E i \in 1..Len(calls) :
          /\ calls[i].data_type = "List(files.ListArg)"
          /\ "ListArg" \notin Range(calls[i].before)
          /\ "ListArg" \in Range(calls[i].after)
    /\ \E i \in 1..Len(calls) :
          /\ calls[i].data_type = "List(String)"
          /\ calls[i].ret.items[1].type = Some("string")

is_alias_type(data_type) == DataType(data_type).kind = "Alias"

\* C13: a call on an Alias does not fail, and the name of an alias is never
\* a key of ctx.schemas.
C13_AliasTransparent ==
    \A t \in DataTypeIds :
        is_alias_type(t) =>
            /\ error # Some(<<"AssertionError", "unknown field data_type ", t>>)
            /\ ~ DictHas(ctx_schemas, NameOf(t))

\* the routes in scope whose path key is path
RoutesAt(path) == {r \in InScopeRoutes : FqPath(r[1], RouteAt(r)) = path}

\* the operation stored under an entry of all_paths
OperationOf(entry) == entry[2].post[1]

BodyParameters(operation) ==
    SelectSeq(operation.parameters[1],
              LAMBDA p : p.node = "Parameter" /\ p.name = "body" /\ p.inParam = "body")

\* C14: every compiled operation has exactly one parameter named 'body' in
\* 'body'; its schema is what _generate_for_datatype returned for the
\* route's argument type, and for a Void argument it is an object schema.
C14_OneBodyParameter ==
    \A e \in Range(all_paths) :
        LET body == BodyParameters(OperationOf(e))
        IN /\ Len(body) = 1
           /\ body[1].schema # None
           /\ \E r \in RoutesAt(e[1]) :
                 IF is_void_type(RouteAt(r).arg_data_type)
                 THEN /\ body[1].schema[1].node = "Schema"
                      /\ body[1].schema[1].type = Some("object")
                 ELSE \E c \in Range(calls) :
                         /\ c.data_type = RouteAt(r).arg_data_type
                         /\ Erased(c.ret) = Erased(body[1].schema[1])

\* the schema the mapping of primitives is said to give
MappedSchema(data_type) ==
    CASE is_boolean_type(data_type) -> [Schema EXCEPT !.type = Some("boolean")]
      [] is_numeric_type(data_type) -> [Schema EXCEPT !.type = Some("number")]
      [] is_string_type(data_type) -> [Schema EXCEPT !.type = Some("string")]
      [] is_timestamp_type(data_type) ->
            [Schema EXCEPT !.type = Some("string"), !.format = Some("date-time")]
      [] is_void_type(data_type) -> [Schema EXCEPT !.type = Some("null")]
      [] OTHER -> [Schema EXCEPT !.type = Some("object")]

RECURSIVE HasNullType(_)
\* the node is, or holds, a Schema of type 'null'
HasNullType(node) ==
    /\ node.node = "Schema"
    /\ \/ node.type = Some("null")
       \/ node.items # None /\ HasNullType(node.items[1])
       \/ node.properties # None
            /\ \E i \in 1..Len(node.properties[1]) : HasNullType(node.properties[1][i][2])

\* the schemas an operation carries: of its body parameter and its responses
SchemasOf(operation) ==
    {p.schema[1] : p \in {q \in Range(operation.parameters[1]) :
                              q.node = "Parameter" /\ q.schema # None}}
        \cup {x[2].schema[1] : x \in Range(operation.responses.entries)}

\* C15: every call on a primitive returns the schema of the fixed mapping
\* (Timestamp: 'string' with format date-time), a call on an unrecognized
\* primitive is warned about, and the 'null' schema of Void is in no schema
\* that goes into the document.
C15_PrimitiveMapping ==
    /\ \A c \in Range(calls) :
          is_primitive_type(c.data_type) =>
              /\ Erased(c.ret) = MappedSchema(c.data_type)
              /\ IsUnknownPrimitive(c.data_type) =>
                    <<"unknown primitive data_type ", c.data_type>> \in Range(warnings)
    /\ \A e \in Range(all_paths) : \A x \in SchemasOf(OperationOf(e)) : ~ HasNullType(x)
    /\ \A e \in Range(ctx_schemas) : ~ HasNullType(e[2])

SentenceEnds(doc) ==
    {i \in 1..Len(doc) : doc[i] = ". " \/ (doc[i] = "." /\ i = Len(doc))}

First(indices) == CHOOSE i \in indices : \A j \in indices : i <= j

\* the doc up to its first sentence terminator, all of it if there is none
Summary(doc) ==
    IF SentenceEnds(doc) = {} THEN doc ELSE SubSeq(doc, 1, First(SentenceEnds(doc)) - 1)

\* what follows the first sentence terminator
Remainder(doc) ==
    IF SentenceEnds(doc) = {} THEN <<>>
    ELSE SubSeq(doc, First(SentenceEnds(doc)) + 1, Len(doc))

\* C16: the summary of an operation is its route's doc up to the first
\* sentence terminator, the description is the rest of the doc; without a
\* doc both are empty.
C16_DocSplit ==
    \A e \in Range(all_paths) :
        \E r \in RoutesAt(e[1]) :
            IF RouteAt(r).doc = None
            THEN /\ OperationOf(e).summary \in {None, Some(<<>>)}
                 /\ OperationOf(e).description \in {None, Some(<<>>)}
            ELSE /\ OperationOf(e).summary = Some(Summary(RouteAt(r).doc[1]))
                 /\ OperationOf(e).description = Some(Remainder(RouteAt(r).doc[1]))

RECURSIVE ObjectsIn(_)
\* the Serializable objects json.dumps meets under value, value included
ObjectsIn(value) ==
    CASE value.j = "leaf" -> {}
      [] value.j = "list" -> UNION {ObjectsIn(value.v[i]) : i \in 1..Len(value.v)}
      [] value.j = "object" ->
            {value} \cup UNION {ObjectsIn(a[2][1]) :
                                   a \in {b \in Range(value.attrs) : b[2] # None}}

RECURSIVE JsonKeys(_)
\* the keys of the objects of a written JSON value
JsonKeys(json) ==
    CASE json.j = "leaf" -> {}
      [] json.j = "list" -> UNION {JsonKeys(json.v[i]) : i \in 1..Len(json.v)}
      [] json.j = "dict" ->
            Range(KeysOf(json)) \cup UNION {JsonKeys(json.v[i][2]) : i \in 1..Len(json.v)}

\* the key an attribute is to be rendered under, None for the rename table
WireKey(object, k) ==
    IF k = <<"_renames">> THEN None
    ELSE IF k = <<"ref">> /\ DictHas(object.renames, k) THEN Some(<<"$ref">>)
    ELSE IF k = <<"inParam">> /\ DictHas(object.renames, k) THEN Some(<<"in">>)
    ELSE Some(k)

\* the attributes of an object that are to be rendered
Present(object) ==
    SelectSeq(object.attrs, LAMBDA a : a[2] # None /\ WireKey(object, a[1]) # None)

\* the document generate assembles from what the pass has compiled
Document == ObjectOf(GenerateSwagger(ctx_schemas, all_paths))

\* C17: for every Serializable of a written document, dict() has one entry
\* for each attribute that is not None and is not the rename table, in the
\* order of the attributes, under '$ref' for ref and 'in' for inParam where
\* the class renames them and under the attribute's own name otherwise, with
\* the attribute's value; so the written text has no key _renames, ref or
\* inParam, and no entry for an attribute that is None.
C17_DictOmitsAndRenames ==
    \A d \in Range(output) :
        /\ \A o \in ObjectsIn(Document) :
              LET rendered == SerializableDict(o, hashseed)
              IN /\ Len(rendered) = Len(Present(o))
                 /\ \A i \in 1..Len(rendered) :
                       /\ rendered[i][1] = WireKey(o, Present(o)[i][1])[1]
                       /\ rendered[i][2] = Present(o)[i][2][1]
        /\ d.json = Dumps(Document, hashseed)
        /\ JsonKeys(d.json) \cap {<<"_renames">>, <<"ref">>, <<"inParam">>} = {}

C17_Witness ==
    /\ output # <<>>
    /\ \E o \in ObjectsIn(Document) :
          <<(<<"ref">>), None>> \in Range(o.attrs) /\ DictHas(o.renames, <<"ref">>)
    /\ \E o \in ObjectsIn(Document) :
          DictHas(o.renames, <<"inParam">>) /\ <<(<<"description">>), None>> \in Range(o.attrs)
    /\ <<"$ref">> \in JsonKeys(output[1].json)
    /\ <<"in">> \in JsonKeys(output[1].json)

\* ------------------------------------------------------------------------
\* babelsdk.api: Api and ApiNamespace (src/babelsdk/api.py)
\* ------------------------------------------------------------------------

\* calls made on one Api and its namespaces
MaxApiCalls == 4

\* the names, operations and data types the calls are made with
ApiNames == {"files", "users"}

ApiOperations == {"list_folder", "get_account"}

ApiDataTypes == {"ListArg", "Account"}

\* the state of generate, which the Api does not touch
generator ==
    <<api, rock, ctx_schemas, all_paths, paths, pc, namespace_i, route_i, stack, ret,
      parameters, default_schema, output, error, warnings, hashseed, previous,
      requested, built, registered, allocated, calls, inserted>>

\* ApiNamespace.__init__
ApiNamespace(name) == [name |-> name, operations |-> <<>>, data_types |-> <<>>]

ApiCall(call, on, arg) == [call |-> call, on |-> on, arg |-> arg]

\* a namespace is created whether or not the name is defined
AlwaysUndefined(spaces, name) == TRUE

\* line 19: name not in self.namespaces
NotDefined(spaces, name) == ~ DictHas(spaces, name)

\* line 21: self.namespaces.get(name)
Get(spaces, name) == IF DictHas(spaces, name) THEN Some(DictGet(spaces, name)) ELSE None

\* Api.ensure_namespace(name); an ApiNamespace object is known by its
\* position in objects
ensure_namespace(name) ==
    /\ Len(log) < MaxApiCalls
    /\ IF NotDefined(namespaces, name)
       THEN /\ objects' = Append(objects, ApiNamespace(name))
            /\ namespaces' = DictSet(namespaces, name, Len(objects) + 1)
       ELSE UNCHANGED <<objects, namespaces>>
    /\ returned' = Get(namespaces', name)
    /\ log' = Append(log, ApiCall("ensure_namespace", 0, name))
    /\ UNCHANGED generator

\* ApiNamespace.add_operation(operation) on the object self
add_operation(self, operation) ==
    /\ Len(log) < MaxApiCalls
    /\ objects' = [objects EXCEPT ![self].operations = Append(@, operation)]
    /\ log' = Append(log, ApiCall("add_operation", self, operation))
    /\ UNCHANGED <<namespaces, returned, generator>>

\* ApiNamespace.add_data_type(data_type) on the object self
add_data_type(self, data_type) ==
    /\ Len(log) < MaxApiCalls
    /\ objects' = [objects EXCEPT ![self].data_types = Append(@, data_type)]
    /\ log' = Append(log, ApiCall("add_data_type", self, data_type))
    /\ UNCHANGED <<namespaces, returned, generator>>

EnsureNamespace == \E name \in ApiNames : ensure_namespace(name)

AddOperation ==
    \E self \in 1..Len(objects) : \E operation \in ApiOperations :
        add_operation(self, operation)

AddDataType ==
    \E self \in 1..Len(objects) : \E data_type \in ApiDataTypes :
        add_data_type(self, data_type)

\* Api.__init__: no namespace yet; generate is not run
InitApi ==
    /\ Init
    /\ api = [files |-> <<>>, users |-> <<>>]
    /\ rock.namespaces = <<"files">>
    /\ rock.parameters = None

NextApi ==
    \/ EnsureNamespace
    \/ AddOperation
    \/ AddDataType

SpecApi == InitApi /\ [][NextApi]_vars

\* the names ensure_namespace was called with, in order
EnsuredNames ==
    LET ensured == SelectSeq(log, LAMBDA c : c.call = "ensure_namespace")
    IN [i \in 1..Len(ensured) |-> ensured[i].arg]

\* what was added to the object self by the calls of one method, in order
AddedTo(self, call) ==
    LET added == SelectSeq(log, LAMBDA c : c.call = call /\ c.on = self)
    IN [i \in 1..Len(added) |-> added[i].arg]

\* C18: after any calls of ensure_namespace, add_operation and
\* add_data_type, Api.namespaces has one entry for each distinct name asked
\* for, in the order of the first requests, and no other ApiNamespace was
\* created; the object of a name is the one its first request created, and
\* ensure_namespace returns it; the operations and data types of every
\* object are those added to it, in the order they were added (so a later
\* ensure_namespace has changed none of them).
C18_OneNamespacePerName ==
    /\ DictKeys(namespaces) = FirstOccurrences(<<>>, EnsuredNames)
    /\ Len(objects) = Len(namespaces)
    /\ \A i \in 1..Len(namespaces) :
          /\ namespaces[i][2] = i
          /\ objects[i].name = namespaces[i][1]
    /\ \A self \in 1..Len(objects) :
          /\ objects[self].operations = AddedTo(self, "add_operation")
          /\ objects[self].data_types = AddedTo(self, "add_data_type")
    /\ log # <<>> /\ log[Len(log)].call = "ensure_namespace" =>
          returned = Some(DictGet(namespaces, log[Len(log)].arg))

C18_Witness ==
    /\ log = <<ApiCall("ensure_namespace", 0, "files"),
               ApiCall("add_operation", 1, "list_folder"),
               ApiCall("ensure_namespace", 0, "users"),
               ApiCall("ensure_namespace", 0, "files")>>
    /\ returned = Some(1)
    /\ objects[1].operations = <<"list_folder">>
    /\ DictKeys(namespaces) = <<"files", "users">>

RECURSIVE IdsIn(_)
\* the identities of the Schema objects a node is made of
IdsIn(node) ==
    IF node.node # "Schema" THEN {}
    ELSE {node.id}
            \cup (IF node.items = None THEN {} ELSE IdsIn(node.items[1]))
            \cup (IF node.properties = None THEN {}
                  ELSE UNION {IdsIn(e[2]) : e \in Range(node.properties[1])})

\* the objects held by the schemas in ctx.schemas
StoredIds == UNION {IdsIn(e[2]) : e \in Range(ctx_schemas)}

\* the objects held as the property of a field by an active call
HeldIds ==
    UNION {UNION {IdsIn(e[2]) : e \in Range(stack[i].own_properties)} : i \in 1..Len(stack)}

\* lines 172-173 and 186-187 are about to copy a doc onto the returned Schema
CopyingDoc ==
    /\ stack # <<>> /\ Top.pc \in {"struct_field", "union_field"}
    /\ ret # None /\ ret[1].node = "Schema"

Matching(path) ==
    IF rock.parameters = None THEN <<>>
    ELSE SelectSeq(rock.parameters[1], LAMBDA m : IsPrefix(m[1], path))

\* the keys of the shared parameter definitions of a written document
ParameterKeys(document) ==
    IF DictHas(document.json.v, <<"parameters">>)
    THEN Range(KeysOf(Member(document.json, "parameters")))
    ELSE {}

\* the parameters of every operation are the body parameter followed by one
\* Reference '#/parameters/<name>' for each entry of rock.parameters whose
\* pattern matches the route's path, in table order, and nothing else
BodyThenMatching ==
    \A e \in Range(all_paths) :
        LET given == OperationOf(e).parameters[1]
        IN /\ given[1].node = "Parameter" /\ given[1].name = "body"
           /\ Len(given) = 1 + Len(Matching(e[1]))
           /\ \A i \in 1..Len(Matching(e[1])) :
                 given[i + 1] = Reference(<<"#/parameters/", Matching(e[1])[i][2]>>)

\* the names rock.swagger.parameters defines
ConfiguredKeys ==
    IF rock.swagger.parameters = None THEN {}
    ELSE {<<k>> : k \in Range(DictKeys(rock.swagger.parameters[1]))}

====
